---- MODULE Spec2Model ----
(***************************************************************************)
(* Model of Searxng.execute (src/nodes/Searxng/Searxng.node.ts).           *)
(*                                                                         *)
(* A JavaScript string is a finite sequence of atoms; the atoms "," and    *)
(* " " are the comma and the blank, every other atom is a block of         *)
(* characters holding neither.  A JavaScript value is a record             *)
(* [t |-> type tag, v |-> payload].                                        *)
(***************************************************************************)
EXTENDS Integers, Sequences, FiniteSets, TLC

VARIABLES
    items,           \* this.getInputData(): the json of each input item
    nodeParams,      \* this.getNodeParameter(name, i) for each item i
    continueFlag,    \* this.continueOnFail()
    pc,              \* position of execute: idle, awaitCredentials, awaitHttp, done
    i,               \* loop index of execute (1-based)
    returnData,      \* the accumulating output list
    cur,             \* locals of the current iteration (query, queryParameters, ...)
    calls,           \* every helpers.httpRequest call issued so far, in order
    pending,         \* items whose httpRequest is issued and not yet settled
    upstream,        \* the payloads the search API may answer with
    credentials,     \* how the getCredentials promise settled, and with what
    replies,         \* how each httpRequest promise settled, in order
    outcome          \* how execute ended: none, returned (with output) or raised

vars == <<items, nodeParams, continueFlag, pc, i, returnData, cur, calls, pending, upstream,
          credentials, replies, outcome>>

----------------------------------------------------------------------------
(* Bounds of the model *)

MaxItems == 3
MaxCategories == 2

----------------------------------------------------------------------------
(* JavaScript values *)

Str(s) == [t |-> "string", v |-> s]
Num(n) == [t |-> "number", v |-> <<n>>]
Bool(b) == [t |-> "boolean", v |-> <<b>>]
Arr(a) == [t |-> "array", v |-> a]
Obj(o) == [t |-> "object", v |-> o]
Null == [t |-> "null", v |-> <<>>]
Undefined == [t |-> "undefined", v |-> <<>>]

\* the outcome of a parameter lookup that throws instead of returning a value
Throws(message) == [t |-> "throws", v |-> message]

\* typeof x === 'string'
IsString(x) == x.t = "string"

\* JavaScript truthiness, as used by ||, ! and if
Truthy(x) ==
    CASE x.t = "string" -> x.v # <<>>
      [] x.t = "number" -> x.v # <<0>>
      [] x.t = "boolean" -> x.v = <<TRUE>>
      [] x.t \in {"null", "undefined"} -> FALSE
      [] OTHER -> TRUE

\* a || b
OrElse(a, b) == IF Truthy(a) THEN a ELSE b

\* o.k of an object given as a function on its own keys: undefined when absent
Get(o, k) == IF k \in DOMAIN o THEN o[k] ELSE Undefined

\* The error objects the model distinguishes, by message
TypeErrorMessage == <<"TypeError">>
NoCredentialsMessage == <<"No credentials got returned!">>

----------------------------------------------------------------------------
(* Array.prototype.join(",") on an array of strings *)

\* mutant: joins with a comma followed by a blank
RECURSIVE JoinCommaBlank(_)
JoinCommaBlank(list) ==
    IF list = <<>> THEN <<>>
    ELSE IF Len(list) = 1 THEN list[1]
    ELSE list[1] \o <<",", " ">> \o JoinCommaBlank(Tail(list))

RECURSIVE JoinComma(_)
JoinComma(list) ==
    IF list = <<>> THEN <<>>
    ELSE IF Len(list) = 1 THEN list[1]
    ELSE list[1] \o <<",">> \o JoinComma(Tail(list))

----------------------------------------------------------------------------
(* Query resolution, lines 215-230 *)

\* mutant: takes a field when it is truthy instead of when it is a string
ResolveQueryTruthy(item, queryParam) ==
    IF Truthy(item)
    THEN IF Truthy(Get(item.v, "query")) THEN Get(item.v, "query")
         ELSE IF Truthy(Get(item.v, "input")) THEN Get(item.v, "input")
         ELSE IF Truthy(Get(item.v, "prompt")) THEN Get(item.v, "prompt")
         ELSE queryParam
    ELSE queryParam

ResolveQuery(item, queryParam) ==
    IF Truthy(item)
    THEN IF IsString(Get(item.v, "query")) THEN Get(item.v, "query")
         ELSE IF IsString(Get(item.v, "input")) THEN Get(item.v, "input")
         ELSE IF IsString(Get(item.v, "prompt")) THEN Get(item.v, "prompt")
         ELSE queryParam
    ELSE queryParam

----------------------------------------------------------------------------
(* Categories normalisation and parameter building, lines 253-274 *)

\* if (typeof categories === 'string') categories = [categories]
WrapCategories(categories) ==
    IF IsString(categories) THEN Arr(<<categories.v>>) ELSE categories

\* (categories || ['general'])
CategoriesOrDefault(categories) == OrElse(categories, Arr(<< <<"general">> >>))

\* (...).join(","): only an array has a join method; on anything else the call
\* is a TypeError
CategoriesJoinThrows(categories) ==
    CategoriesOrDefault(WrapCategories(categories)).t # "array"

CategoriesParameter(categories) ==
    JoinComma(CategoriesOrDefault(WrapCategories(categories)).v)

\* mutant: an optional field is sent whenever it is present, empty or not
OptionalKeysPresent(additionalFields, pageno) ==
    {k \in {"language", "time_range", "safesearch"} : k \in DOMAIN additionalFields}
        \cup (IF pageno > 0 THEN {"pageno"} ELSE {})

\* mutant: the values are tested as numbers, "0" counts as absent
OptionalKeysNumeric(additionalFields, pageno) ==
    {k \in {"language", "time_range", "safesearch"} :
        /\ Truthy(Get(additionalFields, k))
        /\ Get(additionalFields, k) # Str(<<"0">>)}
        \cup (IF pageno > 0 THEN {"pageno"} ELSE {})

\* mutant: page 0 is sent too
OptionalKeysPageZero(additionalFields, pageno) ==
    {k \in {"language", "time_range", "safesearch"} : Truthy(Get(additionalFields, k))}
        \cup (IF pageno >= 0 THEN {"pageno"} ELSE {})

OptionalKeys(additionalFields, pageno) ==
    {k \in {"language", "time_range", "safesearch"} : Truthy(Get(additionalFields, k))}
        \cup (IF pageno > 0 THEN {"pageno"} ELSE {})

BuildQueryParameters(query, categories, additionalFields, pageno) ==
    [k \in {"q", "categories", "format"} \cup OptionalKeys(additionalFields, pageno) |->
        CASE k = "q" -> query
          [] k = "categories" -> Str(CategoriesParameter(categories))
          [] k = "format" -> OrElse(Get(additionalFields, "format"), Str(<<"json">>))
          [] k = "pageno" -> Num(pageno)
          [] OTHER -> additionalFields[k]]

----------------------------------------------------------------------------
(* Filter list, lines 250-251 *)

DefaultFilters == <<"thumbnail", ",", " ", "parsed_url", " ", ",", " ", "positions">>

\* String.prototype.split(','): the pieces between the commas, empty pieces kept
RECURSIVE SplitComma(_)
SplitComma(s) ==
    IF \E n \in 1..Len(s) : s[n] = ","
    THEN LET n == CHOOSE n \in 1..Len(s) : s[n] = "," /\ \A m \in 1..(n - 1) : s[m] # ","
         IN  <<SubSeq(s, 1, n - 1)>> \o SplitComma(SubSeq(s, n + 1, Len(s)))
    ELSE <<s>>

\* mutant: only the leading blanks are removed
RECURSIVE TrimLeftOnly(_)
TrimLeftOnly(s) ==
    IF s = <<>> THEN s
    ELSE IF s[1] = " " THEN TrimLeftOnly(Tail(s))
    ELSE s

\* String.prototype.trim(): surrounding blanks removed
RECURSIVE Trim(_)
Trim(s) ==
    IF s = <<>> THEN s
    ELSE IF s[1] = " " THEN Trim(Tail(s))
    ELSE IF s[Len(s)] = " " THEN Trim(SubSeq(s, 1, Len(s) - 1))
    ELSE s

\* mutant: a provided filter is used even when it is the empty string
FiltersEmptyKept(additionalFields) ==
    IF "filter" \in DOMAIN additionalFields
    THEN SplitComma(additionalFields["filter"].v)
    ELSE SplitComma(DefaultFilters)

\* mutant: a provided filter is added to the default filter
FiltersAddedToDefault(additionalFields) ==
    SplitComma(OrElse(Get(additionalFields, "filter"), Str(DefaultFilters)).v)
        \o SplitComma(DefaultFilters)

Filters(additionalFields) ==
    SplitComma(OrElse(Get(additionalFields, "filter"), Str(DefaultFilters)).v)

----------------------------------------------------------------------------
(* Per-result processing, lines 290-306.  A result is Obj(f), f a function  *)
(* from its field names (atoms) to values.                                  *)

\* const snippet = result.snippet || result.content
SavedSnippet(result) == OrElse(Get(result.v, "snippet"), Get(result.v, "content"))

\* the string that is the field name k; the name "" is the empty string
KeyString(k) == IF k = "" THEN <<>> ELSE <<k>>

\* the keys that filters.forEach(... delete result[f.trim()] ...) removes
DeletedKeys(result, filters) ==
    {k \in DOMAIN result.v :
        \E n \in 1..Len(filters) :
            Trim(filters[n]) # <<>> /\ Trim(filters[n]) = KeyString(k)}

\* the upstream result object after the deletes (it is mutated in place)
FilteredResult(result, filters) ==
    Obj([k \in (DOMAIN result.v) \ DeletedKeys(result, filters) |-> result.v[k]])

\* mutant: the snippet is taken from the result after the deletes
ProcessResultSnippetAfterFilter(result, filters) ==
    LET kept == FilteredResult(result, filters).v
    IN  Obj([k \in (DOMAIN kept) \cup {"snippet"} |->
                IF k = "snippet" THEN SavedSnippet(FilteredResult(result, filters))
                ELSE kept[k]])

\* return { ...result, snippet }
ProcessResult(result, filters) ==
    LET kept == FilteredResult(result, filters).v
    IN  Obj([k \in (DOMAIN kept) \cup {"snippet"} |->
                IF k = "snippet" THEN SavedSnippet(result) ELSE kept[k]])

----------------------------------------------------------------------------
(* Response post-processing, lines 289-343 *)

\* response.results; reading a property of null or undefined is a TypeError
ResponseResults(response) ==
    IF response.t = "object" THEN Get(response.v, "results") ELSE Undefined

IsArray(x) == x.t = "array"

\* mutant: a results value that is truthy and no array is mapped too, which throws
PostProcessThrowsOnNonArray(response) ==
    \/ response.t \in {"null", "undefined"}
    \/ Truthy(ResponseResults(response)) /\ ~IsArray(ResponseResults(response))
    \/ /\ IsArray(ResponseResults(response))
       /\ \E n \in 1..Len(ResponseResults(response).v) :
              ResponseResults(response).v[n].t \in {"null", "undefined"}

PostProcessThrows(response) ==
    \/ response.t \in {"null", "undefined"}
    \/ /\ IsArray(ResponseResults(response))
       /\ \E n \in 1..Len(ResponseResults(response).v) :
              ResponseResults(response).v[n].t \in {"null", "undefined"}

\* let results = Array.isArray(response.results) ? response.results.map(...) : []
MappedResults(response, filters) ==
    IF IsArray(ResponseResults(response))
    THEN [n \in 1..Len(ResponseResults(response).v) |->
             ProcessResult(ResponseResults(response).v[n], filters)]
    ELSE <<>>

\* the response object once the map has run its deletes on the result objects
ResponseAfterFiltering(response, filters) ==
    IF IsArray(ResponseResults(response))
    THEN Obj([k \in DOMAIN response.v |->
                 IF k = "results"
                 THEN Arr([n \in 1..Len(response.v[k].v) |->
                              FilteredResult(response.v[k].v[n], filters)])
                 ELSE response.v[k]])
    ELSE response

UseSingleResponse(additionalFields, results) ==
    Truthy(Get(additionalFields, "singleResponse")) /\ Len(results) > 0

\* mutant: the answer is set whenever there is a result
AnswerAlways(additionalFields, results) ==
    IF Len(results) > 0
    THEN OrElse(Get(results[1].v, "content"), Get(results[1].v, "snippet"))
    ELSE Undefined

\* mutant: the answer is the content alone, with no fallback
AnswerContentOnly(additionalFields, results) ==
    IF UseSingleResponse(additionalFields, results)
    THEN Get(results[1].v, "content")
    ELSE Undefined

\* mutant: the answer prefers the snippet to the content
AnswerSnippetFirst(additionalFields, results) ==
    IF UseSingleResponse(additionalFields, results)
    THEN OrElse(Get(results[1].v, "snippet"), Get(results[1].v, "content"))
    ELSE Undefined

\* lines 318-324
Answer(additionalFields, results) ==
    IF UseSingleResponse(additionalFields, results)
    THEN OrElse(Get(results[1].v, "content"), Get(results[1].v, "snippet"))
    ELSE Undefined

\* mutant: the limit keeps the last results instead of the first
FinalResultsTail(additionalFields, limit, results) ==
    IF UseSingleResponse(additionalFields, results) THEN <<results[1]>>
    ELSE IF limit > 0 /\ Len(results) > limit
    THEN SubSeq(results, Len(results) - limit + 1, Len(results))
    ELSE results

\* mutant: the limit is not applied
FinalResultsUnlimited(additionalFields, limit, results) ==
    IF UseSingleResponse(additionalFields, results) THEN <<results[1]>>
    ELSE results

FinalResults(additionalFields, limit, results) ==
    IF UseSingleResponse(additionalFields, results) THEN <<results[1]>>
    ELSE IF limit > 0 /\ Len(results) > limit THEN SubSeq(results, 1, limit)
    ELSE results

\* mutant: total is counted after the truncation
MetadataAfterTruncation(queryParameters, additionalFields, results, final) ==
    [total |-> Len(final),
     totalReturned |-> Len(final),
     filtered |-> Len(final) # Len(final),
     queryParameters |-> queryParameters,
     additionalFields |-> additionalFields]

\* lines 309-315, 326-327
Metadata(queryParameters, additionalFields, results, final) ==
    [total |-> Len(results),
     totalReturned |-> Len(final),
     filtered |-> Len(final) # Len(results),
     queryParameters |-> queryParameters,
     additionalFields |-> additionalFields]

\* mutant: the raw response is attached whatever the flag
RawResponseAlways(additionalFields, response, filters) ==
    ResponseAfterFiltering(response, filters)

\* lines 329-331
RawResponse(additionalFields, response, filters) ==
    IF Truthy(Get(additionalFields, "rawResponse"))
    THEN ResponseAfterFiltering(response, filters)
    ELSE Undefined

\* the json pushed at lines 333-343
SuccessEnvelope(query, queryParameters, additionalFields, limit, filters, response) ==
    LET results == MappedResults(response, filters)
        final == FinalResults(additionalFields, limit, results)
    IN  [success |-> TRUE,
         metadata |-> Metadata(queryParameters, additionalFields, results, final),
         query |-> query,
         answer |-> Answer(additionalFields, results),
         results |-> final,
         rawResponse |-> RawResponse(additionalFields, response, filters)]

\* mutant: the failure envelope loses the query
FailureEnvelopeWithoutQuery(message, query) ==
    [success |-> FALSE, error |-> message, query |-> Undefined]

\* the json pushed at lines 347-353
FailureEnvelope(message, query) ==
    [success |-> FALSE, error |-> message, query |-> query]

----------------------------------------------------------------------------
(* execute, lines 200-369 *)

\* mutant: the envelope's query is the configured one, whatever the item holds
LocalsConfiguredQuery(k) ==
    LET p == nodeParams[k]
        query == ResolveQuery(items[k], p.query)
    IN  [query |-> p.query,
         queryParameters |->
             BuildQueryParameters(query, p.categories, p.additionalFields, p.pageno),
         filters |-> Filters(p.additionalFields),
         additionalFields |-> p.additionalFields,
         limit |-> p.limit]

\* the locals of iteration k up to the httpRequest call, lines 215-274
Locals(k) ==
    LET p == nodeParams[k]
        query == ResolveQuery(items[k], p.query)
    IN  [query |-> query,
         queryParameters |->
             BuildQueryParameters(query, p.categories, p.additionalFields, p.pageno),
         filters |-> Filters(p.additionalFields),
         additionalFields |-> p.additionalFields,
         limit |-> p.limit]

NoLocals ==
    [query |-> Undefined, queryParameters |-> <<>>, filters |-> <<>>,
     additionalFields |-> <<>>, limit |-> 0]

\* this.getNodeParameter("categories", i) throws, line 232
LookupThrows(k) == nodeParams[k].categories.t = "throws"

\* iteration k throws before its try block is entered, lines 215-275
PrepareThrows(k) == LookupThrows(k) \/ CategoriesJoinThrows(nodeParams[k].categories)

\* the error iteration k throws before its try block
PrepareError(k) ==
    IF LookupThrows(k) THEN nodeParams[k].categories.v ELSE TypeErrorMessage

\* mutant: the credentials are never checked
CredentialsNeverMissing(value) == FALSE

\* if (!credentials), line 206
CredentialsMissing(value) == ~Truthy(value)

\* mutant: the catch around the whole body always rethrows
BodyErrorRaises == FALSE

\* mutant: the catch of one item always continues
AlwaysContinue == TRUE

\* this.continueOnFail() in the catch of one item, line 346
ContinueAfterItemError == continueFlag

\* this.continueOnFail() in the catch around the whole body, line 364
ContinueAfterBodyError == continueFlag

\* mutant: the loop index is not advanced
SameIndex(k) == k

\* i++, line 213
NextIndex(k) == k + 1

Returned(rd) == [kind |-> "returned", output |-> rd]
Raised(message) == [kind |-> "raised", error |-> message]

\* mutant: execute neither returns nor throws, its promise stays pending
FinishNeverSettles(k, rd, pend, result) ==
    /\ pc' = "pending"
    /\ i' = k
    /\ returnData' = rd
    /\ pending' = pend
    /\ UNCHANGED <<cur, calls, outcome>>

\* execute ends: return [returnData] (lines 360, 365) or throw error (lines 356, 367)
Finish(k, rd, pend, result) ==
    /\ pc' = "done"
    /\ i' = k
    /\ returnData' = rd
    /\ pending' = pend
    /\ outcome' = result
    /\ UNCHANGED <<cur, calls>>

\* the catch around the whole body, lines 362-368
BodyCatch(k, rd, pend, message) ==
    Finish(k, rd, pend, IF ContinueAfterBodyError THEN Returned(rd) ELSE Raised(message))

\* the for loop from index k on, up to the next await, lines 213-286
RunLoop(k, rd, pend) ==
    IF k > Len(items)
    THEN Finish(k, rd, pend, Returned(rd))
    ELSE IF PrepareThrows(k)
    THEN BodyCatch(k, rd, pend, PrepareError(k))
    ELSE /\ pc' = "awaitHttp"
         /\ i' = k
         /\ returnData' = rd
         /\ cur' = Locals(k)
         /\ calls' = Append(calls, [item |-> k, qs |-> Locals(k).queryParameters])
         /\ pending' = pend \cup {k}
         /\ UNCHANGED outcome

\* mutant: the catch of one item starts the output list anew
ItemCatchResets(message) ==
    IF ContinueAfterItemError
    THEN RunLoop(NextIndex(i), <<FailureEnvelope(message, cur.query)>>, pending \ {i})
    ELSE Finish(i, returnData, pending \ {i}, Raised(message))

\* the catch of one item, lines 345-357
ItemCatch(message) ==
    IF ContinueAfterItemError
    THEN RunLoop(NextIndex(i),
                 Append(returnData, FailureEnvelope(message, cur.query)),
                 pending \ {i})
    ELSE Finish(i, returnData, pending \ {i}, Raised(message))

\* lines 200-205: execute is called and awaits getCredentials
Execute ==
    /\ pc = "idle"
    /\ pc' = "awaitCredentials"
    /\ returnData' = <<>>
    /\ UNCHANGED <<items, nodeParams, continueFlag, i, cur, calls, pending, upstream,
                   credentials, replies, outcome>>

\* getCredentials resolves, lines 205-213
CredentialsResolved(value) ==
    /\ pc = "awaitCredentials"
    /\ IF CredentialsMissing(value)
       THEN BodyCatch(i, returnData, pending, NoCredentialsMessage)
       ELSE RunLoop(1, returnData, pending)
    /\ credentials' = [kind |-> "resolved", value |-> value]
    /\ UNCHANGED <<items, nodeParams, continueFlag, upstream, replies>>

\* getCredentials rejects, lines 205, 362-368
CredentialsRejected(message) ==
    /\ pc = "awaitCredentials"
    /\ BodyCatch(i, returnData, pending, message)
    /\ credentials' = [kind |-> "rejected", error |-> message]
    /\ UNCHANGED <<items, nodeParams, continueFlag, upstream, replies>>

\* helpers.httpRequest resolves, lines 278-343
HttpResolved(response) ==
    /\ pc = "awaitHttp"
    /\ IF PostProcessThrows(response)
       THEN ItemCatch(TypeErrorMessage)
       ELSE RunLoop(NextIndex(i),
                    Append(returnData,
                           SuccessEnvelope(cur.query, cur.queryParameters,
                               cur.additionalFields, cur.limit, cur.filters, response)),
                    pending \ {i})
    /\ replies' = Append(replies, [item |-> i, kind |-> "resolved", value |-> response])
    /\ UNCHANGED <<items, nodeParams, continueFlag, upstream, credentials>>

\* helpers.httpRequest rejects, lines 278, 345-357
HttpRejected(message) ==
    /\ pc = "awaitHttp"
    /\ ItemCatch(message)
    /\ replies' = Append(replies, [item |-> i, kind |-> "rejected", value |-> message])
    /\ UNCHANGED <<items, nodeParams, continueFlag, upstream, credentials>>

----------------------------------------------------------------------------
(* The environment *)

CredentialValues ==
    {Obj([apiUrl |-> Str(<<"https://searxng.example.com">>), apiKey |-> Str(<<"key">>)]),
     Null, Undefined}

CredentialErrors == {<<"Credentials not found">>}

TransportErrors == {<<"API error">>}

Next ==
    \/ Execute
    \/ \E c \in CredentialValues : CredentialsResolved(c)
    \/ \E m \in CredentialErrors : CredentialsRejected(m)
    \/ \E r \in upstream : HttpResolved(r)
    \/ \E m \in TransportErrors : HttpRejected(m)

----------------------------------------------------------------------------
(* Inputs *)

SeqsUpTo(S, n) == UNION {[1..m -> S] : m \in 0..n}

\* an object with no key
EmptyObject == <<>>

ConfiguredQuery == Str(<<"configured">>)

\* A batch: up to MaxItems items, each with its own node parameters
BatchItems == {Obj([query |-> Str(<<"cats">>)]), Obj(EmptyObject)}

ParameterErrors == {<<"Could not get parameter">>}

BatchCategories ==
    {Arr(<< <<"general">>, <<"it">> >>), Num(5)} \cup {Throws(m) : m \in ParameterErrors}

BatchParams ==
    [query : {ConfiguredQuery},
     categories : BatchCategories,
     additionalFields : {EmptyObject},
     limit : {1},
     pageno : {0}]

BatchUpstream ==
    {Obj([results |->
             Arr(<<Obj([title |-> Str(<<"A">>), content |-> Str(<<"c1">>)]),
                   Obj([title |-> Str(<<"B">>), content |-> Str(<<"c2">>)])>>)]),
     Obj([results |-> Arr(<<Null>>)]),
     Null}

Idle ==
    /\ pc = "idle"
    /\ i = 1
    /\ returnData = <<>>
    /\ cur = NoLocals
    /\ calls = <<>>
    /\ pending = {}
    /\ credentials = [kind |-> "none"]
    /\ replies = <<>>
    /\ outcome = [kind |-> "none"]

Init ==
    /\ \E n \in 0..MaxItems :
          /\ items \in [1..n -> BatchItems]
          /\ nodeParams \in [1..n -> BatchParams]
    /\ continueFlag \in BOOLEAN
    /\ upstream = BatchUpstream
    /\ Idle

Spec == Init /\ [][Next]_vars

\* One request: a single item, with every shape of item and of categories
ItemFieldValues(k) == {Str(<<>>), Str(<<k>>), Num(7)}

RequestItems ==
    {Undefined} \cup
    {Obj(f) : f \in UNION {{g \in [D -> UNION {ItemFieldValues(k) : k \in D}] :
                                  \A k \in D : g[k] \in ItemFieldValues(k)} :
                              D \in SUBSET {"query", "input", "prompt"}}}

CategoryNames == {<<"general">>, <<"it">>}

RequestCategories ==
    {Null, Undefined, Num(0), Num(5), Obj(EmptyObject), Str(<<>>), Str(<<"science">>)}
        \cup {Arr(l) : l \in SeqsUpTo(CategoryNames, MaxCategories)}

RequestParams ==
    [query : {ConfiguredQuery},
     categories : RequestCategories,
     additionalFields : {EmptyObject},
     limit : {1},
     pageno : {0}]

InitRequest ==
    /\ items \in [1..1 -> RequestItems]
    /\ nodeParams \in [1..1 -> RequestParams]
    /\ continueFlag \in BOOLEAN
    /\ upstream = BatchUpstream
    /\ Idle

SpecRequest == InitRequest /\ [][Next]_vars

\* The batch under the assumption that every awaited promise settles: the
\* credentials lookup and each transport call complete, by returning or failing
CredentialsSettle ==
    \/ \E c \in CredentialValues : CredentialsResolved(c)
    \/ \E m \in CredentialErrors : CredentialsRejected(m)

HttpSettles ==
    \/ \E r \in upstream : HttpResolved(r)
    \/ \E m \in TransportErrors : HttpRejected(m)

SpecLive == Spec /\ WF_vars(CredentialsSettle) /\ WF_vars(HttpSettles)

----------------------------------------------------------------------------
(* Vocabulary of the properties *)

Done == pc = "done"

CredentialsOk == credentials.kind = "resolved" /\ Truthy(credentials.value)

CredentialsFalsy == credentials.kind = "resolved" /\ ~Truthy(credentials.value)

\* the query the k-th item resolves to, by the rule of first string field
FirstStringField(item) ==
    IF item.t # "object" THEN "none"
    ELSE IF "query" \in DOMAIN item.v /\ item.v["query"].t = "string" THEN "query"
    ELSE IF "input" \in DOMAIN item.v /\ item.v["input"].t = "string" THEN "input"
    ELSE IF "prompt" \in DOMAIN item.v /\ item.v["prompt"].t = "string" THEN "prompt"
    ELSE "none"

ExpectedQuery(k) ==
    IF FirstStringField(items[k]) = "none" THEN nodeParams[k].query
    ELSE items[k].v[FirstStringField(items[k])]

\* the transport call of item k failed
TransportFailed(k) ==
    \E n \in 1..Len(replies) : replies[n].item = k /\ replies[n].kind = "rejected"

\* the transport call of item k returned a payload that cannot be post-processed:
\* null or undefined itself, or a results array holding null or undefined
UnreadablePayload(k) ==
    \E n \in 1..Len(replies) :
        /\ replies[n].item = k
        /\ replies[n].kind = "resolved"
        /\ \/ replies[n].value.t \in {"null", "undefined"}
           \/ /\ replies[n].value.t = "object"
              /\ "results" \in DOMAIN replies[n].value.v
              /\ replies[n].value.v["results"].t = "array"
              /\ \E m \in 1..Len(replies[n].value.v["results"].v) :
                     replies[n].value.v["results"].v[m].t \in {"null", "undefined"}

IsFailureEnvelope(e) == DOMAIN e = {"success", "error", "query"} /\ e.success = FALSE

----------------------------------------------------------------------------
(* C1: with continuation enabled and credentials resolved, execute returns *)
(* exactly one envelope per input item, the k-th for the k-th item.        *)

C1_OneEnvelopePerItem ==
    (Done /\ continueFlag /\ CredentialsOk) =>
        /\ outcome.kind = "returned"
        /\ Len(outcome.output) = Len(items)
        /\ \A k \in 1..Len(outcome.output) : outcome.output[k].query = ExpectedQuery(k)

----------------------------------------------------------------------------
(* C2: with continuation enabled, an item's envelope is a failure envelope *)
(* {success:false, error, query} if and only if its transport call failed; *)
(* error is the failure's message, query the item's resolved query; every  *)
(* other envelope has success = true.                                      *)

C2_FailureIffTransportFailed ==
    continueFlag =>
        \A k \in 1..Len(returnData) :
            /\ returnData[k].success = FALSE <=> TransportFailed(k)
            /\ returnData[k].success = FALSE =>
                   /\ IsFailureEnvelope(returnData[k])
                   /\ returnData[k].error = replies[k].value
                   /\ returnData[k].query = ExpectedQuery(k)

(* C2, amended: ... if and only if its transport call failed or the        *)
(* post-processing of its response threw; error is the message of that     *)
(* failure.                                                                *)

C2_FailureIffItemFailed ==
    continueFlag =>
        \A k \in 1..Len(returnData) :
            /\ returnData[k].success \in BOOLEAN
            /\ returnData[k].success = FALSE <=> (TransportFailed(k) \/ UnreadablePayload(k))
            /\ returnData[k].success = FALSE =>
                   /\ IsFailureEnvelope(returnData[k])
                   /\ returnData[k].error =
                          (IF TransportFailed(k) THEN replies[k].value ELSE TypeErrorMessage)
                   /\ returnData[k].query = ExpectedQuery(k)

C2_Witness ==
    /\ Done /\ continueFlag /\ Len(returnData) = 3
    /\ returnData[1].success = TRUE
    /\ TransportFailed(2) /\ returnData[2].success = FALSE
    /\ UnreadablePayload(3) /\ returnData[3].success = FALSE

----------------------------------------------------------------------------
(* C3: with continuation disabled, when the transport call of item k fails *)
(* execute raises that error, returns no envelope list, and makes no       *)
(* transport call for any item after k.                                    *)

C3_AbortOnTransportFailure ==
    ~continueFlag =>
        \A k \in 1..Len(items) :
            TransportFailed(k) =>
                /\ Done
                /\ outcome = Raised(replies[Len(replies)].value)
                /\ replies[Len(replies)].item = k
                /\ \A n \in 1..Len(calls) : calls[n].item <= k

C3_Witness ==
    /\ ~continueFlag /\ Len(items) = 3 /\ TransportFailed(2)
    /\ Len(returnData) = 1 /\ outcome.kind = "raised"

----------------------------------------------------------------------------
(* C4: when credential resolution fails or yields a falsy value no         *)
(* transport call is made; with continuation disabled execute raises (the  *)
(* message is "No credentials got returned!" for a falsy value), with      *)
(* continuation enabled it returns the empty envelope list.                *)

C4_NoCredentials ==
    (credentials.kind = "rejected" \/ CredentialsFalsy) =>
        /\ Done
        /\ calls = <<>>
        /\ continueFlag => outcome = Returned(<<>>)
        /\ (~continueFlag /\ CredentialsFalsy) => outcome = Raised(NoCredentialsMessage)
        /\ (~continueFlag /\ credentials.kind = "rejected") =>
               outcome = Raised(credentials.error)

C4_Witness ==
    /\ CredentialsFalsy /\ ~continueFlag /\ Len(items) = 3
    /\ \A k \in 1..3 : ~PrepareThrows(k)
    /\ outcome.kind = "raised"

----------------------------------------------------------------------------
(* C5: items are processed one at a time in input order: at most one       *)
(* transport call is outstanding, the call for item k+1 is issued only     *)
(* after the call of item k has settled and its envelope is appended, and  *)
(* every item gets at most one call (exactly one when reached).            *)

C5_Sequential ==
    /\ Cardinality(pending) <= 1
    /\ \A n \in 1..Len(calls) : calls[n].item = n
    /\ \A n \in 1..Len(replies) : replies[n].item = n
    /\ Len(calls) - 1 <= Len(replies) /\ Len(replies) <= Len(calls)
    /\ Len(calls) - 1 <= Len(returnData)
    /\ pc = "awaitHttp" => (pending = {i} /\ Len(calls) = i /\ Len(returnData) = i - 1)
    /\ pc # "awaitHttp" => pending = {}

C5_Witness ==
    /\ pc = "awaitHttp" /\ i = 3 /\ pending = {3}
    /\ TransportFailed(1) /\ returnData[2].success = TRUE

----------------------------------------------------------------------------
(* Properties of one request (SpecRequest): the item is items[1], its      *)
(* categories input is nodeParams[1].categories.                           *)

CategoriesInput == nodeParams[1].categories

\* the first iteration has run up to its httpRequest call or has thrown
FirstItemReached == CredentialsOk /\ Len(items) >= 1

\* the item was sent to the transport
Sent == Len(calls) >= 1 /\ calls[1].item = 1

SentCategories == calls[1].qs["categories"]

MalformedCategories == CategoriesInput.t \notin {"string", "array", "null", "undefined"}

----------------------------------------------------------------------------
(* C6: the categories inputs null, undefined and [] each yield the         *)
(* outbound parameter categories = "general".                              *)

C6_EmptyCategoriesDefault ==
    (FirstItemReached /\ CategoriesInput \in {Null, Undefined, Arr(<<>>)}) =>
        (Sent /\ SentCategories = Str(<<"general">>))

----------------------------------------------------------------------------
(* C7: in every transport call the categories parameter is non-empty: it   *)
(* is never the empty string and never denotes an empty category set.      *)

C7_CategoriesNeverEmpty ==
    \A n \in 1..Len(calls) :
        /\ calls[n].qs["categories"].v # <<>>
        /\ \E m \in 1..Len(SplitComma(calls[n].qs["categories"].v)) :
               SplitComma(calls[n].qs["categories"].v)[m] # <<>>

----------------------------------------------------------------------------
(* C8: a categories input that is a string s yields categories = s; a      *)
(* non-empty list yields its elements joined with commas, in the list's    *)
(* order, none added, dropped or reordered.                                *)

C8_CategoriesJoined ==
    FirstItemReached =>
        /\ CategoriesInput.t = "string" => (Sent /\ SentCategories = CategoriesInput)
        /\ (CategoriesInput.t = "array" /\ CategoriesInput.v # <<>>) =>
               /\ Sent
               /\ SentCategories.t = "string"
               /\ SplitComma(SentCategories.v) = CategoriesInput.v
               /\ Len(SentCategories.v) = 2 * Len(CategoriesInput.v) - 1

C8_Witness ==
    /\ Sent
    /\ CategoriesInput = Arr(<< <<"general">>, <<"it">> >>)
    /\ SentCategories = Str(<<"general", ",", "it">>)

----------------------------------------------------------------------------
(* C9: a categories value that is neither a string, a list, null nor       *)
(* undefined is treated as null: the transport is called with categories = *)
(* "general", the item is processed normally and no error is raised.       *)

C9_MalformedCategoriesDefault ==
    (FirstItemReached /\ MalformedCategories) =>
        /\ Sent
        /\ SentCategories = Str(<<"general">>)
        /\ outcome.kind # "raised"
        /\ Done => Len(returnData) = 1

----------------------------------------------------------------------------
(* C10: the query is the first of item.query, item.input, item.prompt that *)
(* is a string (of any content, the empty string included), and the        *)
(* configured query parameter when none of the three is a string.          *)

C10_QueryPriority ==
    Sent => (cur.query = ExpectedQuery(1) /\ calls[1].qs["q"] = ExpectedQuery(1))

C10_Witness ==
    /\ Sent
    /\ items[1] = Obj([query |-> Num(7), input |-> Str(<<>>), prompt |-> Str(<<"prompt">>)])
    /\ calls[1].qs["q"] = Str(<<>>)

----------------------------------------------------------------------------
(* One request with every shape of the additional fields that reach the    *)
(* query parameters, and every page number (SpecParameters)                *)

MaxPageno == 2

\* the objects whose keys are a subset of DOMAIN V, key k holding a value of V[k]
ObjectsOver(V) ==
    UNION {{g \in [D -> UNION {V[k] : k \in D}] : \A k \in D : g[k] \in V[k]} :
              D \in SUBSET DOMAIN V}

ParameterFieldValues ==
    [language |-> {Str(<<>>), Str(<<"de">>)},
     time_range |-> {Str(<<>>), Str(<<"day">>)},
     safesearch |-> {Str(<<"0">>), Str(<<"2">>)},
     format |-> {Str(<<>>), Str(<<"html">>)}]

ParameterFields == ObjectsOver(ParameterFieldValues)

ParametersParams ==
    [query : {ConfiguredQuery},
     categories : {Arr(<< <<"general">>, <<"it">> >>)},
     additionalFields : ParameterFields,
     limit : {1},
     pageno : (-1)..MaxPageno]

InitParameters ==
    /\ items \in [1..1 -> BatchItems]
    /\ nodeParams \in [1..1 -> ParametersParams]
    /\ continueFlag \in BOOLEAN
    /\ upstream = BatchUpstream
    /\ Idle

SpecParameters == InitParameters /\ [][Next]_vars

AdditionalFieldsInput == nodeParams[1].additionalFields

PagenoInput == nodeParams[1].pageno

SentParameters == calls[1].qs

\* the additional field k is present and not the empty string
PresentNonEmpty(k) ==
    k \in DOMAIN AdditionalFieldsInput /\ AdditionalFieldsInput[k] # Str(<<>>)

----------------------------------------------------------------------------
(* C11: the keys sent are exactly q, categories, format, plus language,    *)
(* time_range, safesearch each iff that additional field is present and    *)
(* non-empty, plus pageno iff pageno > 0; q is the resolved query, format  *)
(* the additional-fields format or "json" when absent, and every optional  *)
(* key carries the additional field's value unchanged.                     *)

C11_ParameterKeys ==
    Sent =>
        /\ DOMAIN SentParameters =
               {"q", "categories", "format"}
                   \cup {k \in {"language", "time_range", "safesearch"} : PresentNonEmpty(k)}
                   \cup {k \in {"pageno"} : PagenoInput > 0}
        /\ SentParameters["q"] = ExpectedQuery(1)
        /\ "format" \notin DOMAIN AdditionalFieldsInput =>
               SentParameters["format"] = Str(<<"json">>)
        /\ PresentNonEmpty("format") =>
               SentParameters["format"] = AdditionalFieldsInput["format"]
        /\ \A k \in {"language", "time_range", "safesearch"} :
               PresentNonEmpty(k) => SentParameters[k] = AdditionalFieldsInput[k]

C11_Witness ==
    /\ Sent
    /\ AdditionalFieldsInput =
           [language |-> Str(<<"de">>), time_range |-> Str(<<>>), safesearch |-> Str(<<"0">>)]
    /\ PagenoInput = 0
    /\ DOMAIN SentParameters = {"q", "categories", "format", "language", "safesearch"}

----------------------------------------------------------------------------
(* C12: the parameters sent hold a pageno key iff the configured pageno is *)
(* greater than 0, and then its value is the configured pageno; pageno = 0 *)
(* sends no pageno key.                                                    *)

C12_PagenoSent ==
    Sent =>
        /\ "pageno" \in DOMAIN SentParameters <=> PagenoInput > 0
        /\ "pageno" \in DOMAIN SentParameters =>
               SentParameters["pageno"] = Num(PagenoInput)

C12_Witness ==
    /\ Sent /\ PagenoInput = 2 /\ SentParameters["pageno"] = Num(2)

----------------------------------------------------------------------------
(* One request with every shape of filter, single-response flag, raw flag, *)
(* limit and upstream payload (SpecResults)                                *)

MaxResults == 3
MaxLimit == 2

ResultFieldValues ==
    [title |-> {Str(<<"T">>)},
     content |-> {Str(<<>>), Str(<<"C">>)},
     snippet |-> {Str(<<>>), Str(<<"S">>)},
     thumbnail |-> {Str(<<"X">>)},
     parsed_url |-> {Str(<<"P">>)},
     positions |-> {Arr(<< <<"1">> >>)}]

\* every shape of one upstream result
ResultShapes == {Obj(f) : f \in ObjectsOver(ResultFieldValues)}

\* two results that can be told apart, for the payloads of several results
ListedResults ==
    {Obj([title |-> Str(<<"A">>), content |-> Str(<<"c1">>), thumbnail |-> Str(<<"X">>)]),
     Obj([title |-> Str(<<"B">>), content |-> Str(<<"c2">>), snippet |-> Str(<<"s2">>)])}

\* a result with a field whose name is the empty string
UnnamedFieldResult ==
    Obj([k \in {"", "title"} |-> IF k = "" THEN Str(<<"E">>) ELSE Str(<<"T">>)])

ResultsUpstream ==
    {Obj([results |-> Arr(<<r>>)]) : r \in ResultShapes \cup {UnnamedFieldResult}}
        \cup {Obj([results |-> Arr(l)]) : l \in SeqsUpTo(ListedResults, MaxResults)}
        \cup {Obj(EmptyObject), Obj([results |-> Null]), Obj([results |-> Str(<<"none">>)]),
              Obj([results |-> Obj(EmptyObject)]), Str(<<"text">>), Null}

ResultsFieldValues ==
    [filter |-> {Str(<<>>),
                 Str(<<"title">>),
                 Str(<<" ", "content", " ", ",", "snippet", " ">>),
                 Str(<<"title", ",", ",", " ", ",", "thumbnail", ",">>),
                 Str(<<"nosuchfield">>)},
     singleResponse |-> {Bool(TRUE), Bool(FALSE)},
     rawResponse |-> {Bool(TRUE)}]

ResultsFields == ObjectsOver(ResultsFieldValues)

ResultsParams ==
    [query : {ConfiguredQuery},
     categories : {Arr(<< <<"general">> >>)},
     additionalFields : ResultsFields,
     limit : 0..MaxLimit,
     pageno : {0}]

InitResults ==
    /\ items \in [1..1 -> {Obj(EmptyObject)}]
    /\ nodeParams \in [1..1 -> ResultsParams]
    /\ continueFlag \in BOOLEAN
    /\ upstream = ResultsUpstream
    /\ Idle

SpecResults == InitResults /\ [][Next]_vars

----------------------------------------------------------------------------
(* Vocabulary of the properties of SpecResults *)

\* what the transport answered for the item
Payload == replies[1].value

\* the item's transport call resolved and its envelope is a successful one
Processed ==
    /\ Len(replies) = 1 /\ replies[1].kind = "resolved"
    /\ Len(returnData) = 1 /\ returnData[1].success = TRUE

Envelope == returnData[1]

\* the upstream results: the results array of the payload, empty when it has none
UpstreamResults ==
    IF Payload.t = "object" /\ "results" \in DOMAIN Payload.v
          /\ Payload.v["results"].t = "array"
    THEN Payload.v["results"].v
    ELSE <<>>

LimitInput == nodeParams[1].limit

SingleResponseInput ==
    /\ "singleResponse" \in DOMAIN AdditionalFieldsInput
    /\ AdditionalFieldsInput["singleResponse"] = Bool(TRUE)

RawResponseInput ==
    /\ "rawResponse" \in DOMAIN AdditionalFieldsInput
    /\ AdditionalFieldsInput["rawResponse"] = Bool(TRUE)

Min(a, b) == IF a <= b THEN a ELSE b

\* the token is the field name k with blanks around it
MatchesToken(token, k) ==
    \E p \in 1..Len(token) :
        token[p] = k /\ \A q \in (1..Len(token)) \ {p} : token[q] = " "

\* the filter list in use names the field k
Filtered(k) == \E n \in 1..Len(cur.filters) : MatchesToken(cur.filters[n], k)

\* the comma separated string s names the field k
NamedIn(s, k) ==
    \E p \in 1..Len(s) :
        /\ s[p] = k
        /\ \A q \in 1..Len(s) :
               (q # p /\ \A r \in Min(p, q)..(IF p <= q THEN q ELSE p) : s[r] # ",")
                   => s[q] = " "

----------------------------------------------------------------------------
(* C13: an emitted result holds no field named by a filter token (trimmed; *)
(* snippet aside), holds every other upstream field with its value, and a  *)
(* token naming a field the result lacks causes no error.                  *)

C13_FilteredFields ==
    /\ Processed =>
           /\ Len(Envelope.results) <= Len(UpstreamResults)
           /\ \A n \in 1..Len(Envelope.results) :
                  /\ DOMAIN Envelope.results[n].v \subseteq
                         (DOMAIN UpstreamResults[n].v) \cup {"snippet"}
                  /\ \A k \in (DOMAIN UpstreamResults[n].v) \ {"snippet"} :
                         /\ k \in DOMAIN Envelope.results[n].v <=> ~Filtered(k)
                         /\ k \in DOMAIN Envelope.results[n].v =>
                                Envelope.results[n].v[k] = UpstreamResults[n].v[k]
    /\ (Len(replies) = 1 /\ replies[1].kind = "resolved" /\ Payload.t = "object") =>
           returnData[1].success = TRUE

C13_Witness ==
    /\ Processed
    /\ AdditionalFieldsInput = [filter |-> Str(<<" ", "content", " ", ",", "snippet", " ">>)]
    /\ UpstreamResults = <<Obj([title |-> Str(<<"T">>), content |-> Str(<<"C">>)])>>
    /\ DOMAIN Envelope.results[1].v = {"title", "snippet"}

----------------------------------------------------------------------------
(* C14: every emitted result has a snippet key holding the upstream        *)
(* snippet, falling back to the upstream content, as before filtering,     *)
(* also when content or snippet are filtered; when both are absent the key *)
(* is written with an undefined value.                                     *)

UpstreamSnippet(result) ==
    IF "snippet" \in DOMAIN result.v /\ result.v["snippet"] # Str(<<>>)
    THEN result.v["snippet"]
    ELSE IF "content" \in DOMAIN result.v THEN result.v["content"] ELSE Undefined

C14_SnippetKept ==
    Processed =>
        \A n \in 1..Len(Envelope.results) :
            /\ "snippet" \in DOMAIN Envelope.results[n].v
            /\ Envelope.results[n].v["snippet"] = UpstreamSnippet(UpstreamResults[n])

C14_Witness ==
    /\ Processed
    /\ AdditionalFieldsInput = [filter |-> Str(<<" ", "content", " ", ",", "snippet", " ">>)]
    /\ UpstreamResults = <<Obj([snippet |-> Str(<<>>), content |-> Str(<<"C">>)])>>
    /\ Envelope.results[1] = Obj([snippet |-> Str(<<"C">>)])

----------------------------------------------------------------------------
(* C15: with no filter provided exactly thumbnail, parsed_url and          *)
(* positions are removed from every result; a provided filter replaces the *)
(* default, so a default field it does not name is retained.               *)

DefaultFields == {"thumbnail", "parsed_url", "positions"}

----------------------------------------------------------------------------
(* C16: with singleResponse false and limit > 0 the envelope's results are *)
(* the first min(total, limit) processed upstream results; metadata.total  *)
(* = total and metadata.totalReturned = min(total, limit).                 *)

C16_Limit ==
    (Processed /\ ~SingleResponseInput /\ LimitInput > 0) =>
        /\ Len(Envelope.results) = Min(Len(UpstreamResults), LimitInput)
        /\ \A n \in 1..Len(Envelope.results) :
               Envelope.results[n] = ProcessResult(UpstreamResults[n], cur.filters)
        /\ Envelope.metadata.total = Len(UpstreamResults)
        /\ Envelope.metadata.totalReturned = Min(Len(UpstreamResults), LimitInput)

C16_Witness ==
    /\ Processed /\ ~SingleResponseInput /\ LimitInput = 2
    /\ Len(UpstreamResults) = 3
    /\ Len(Envelope.results) = 2
    /\ Envelope.metadata.total = 3 /\ Envelope.metadata.totalReturned = 2

----------------------------------------------------------------------------
(* C17: with singleResponse true and at least one upstream result, for     *)
(* every limit the envelope holds exactly the first processed result and   *)
(* answer is that result's content, falling back to its snippet.           *)

ContentOrSnippet(result) ==
    IF "content" \in DOMAIN result.v /\ result.v["content"] # Str(<<>>)
    THEN result.v["content"]
    ELSE result.v["snippet"]

C17_SingleResponse ==
    (Processed /\ SingleResponseInput /\ Len(UpstreamResults) >= 1) =>
        /\ Len(Envelope.results) = 1
        /\ Envelope.results[1] = ProcessResult(UpstreamResults[1], cur.filters)
        /\ Envelope.answer = ContentOrSnippet(Envelope.results[1])

C17_Witness ==
    /\ Processed /\ SingleResponseInput /\ LimitInput = 2
    /\ Len(UpstreamResults) = 3
    /\ UpstreamResults[1].v["title"] = Str(<<"B">>)
    /\ Len(Envelope.results) = 1
    /\ Envelope.answer = Str(<<"c2">>)

----------------------------------------------------------------------------
(* C18: in every successful envelope metadata.total is the number of       *)
(* upstream results before truncation, metadata.totalReturned the length   *)
(* of the envelope's results, totalReturned <= total, and                  *)
(* metadata.filtered is true exactly when they differ.                     *)

C18_Metadata ==
    Processed =>
        /\ Envelope.metadata.total = Len(UpstreamResults)
        /\ Envelope.metadata.totalReturned = Len(Envelope.results)
        /\ Envelope.metadata.totalReturned <= Envelope.metadata.total
        /\ Envelope.metadata.filtered =
               (Envelope.metadata.totalReturned # Envelope.metadata.total)

C18_Witness ==
    /\ Processed
    /\ Envelope.metadata.total = 3
    /\ Envelope.metadata.totalReturned = 1
    /\ Envelope.metadata.filtered = TRUE

----------------------------------------------------------------------------
(* C19: when the rawResponse flag is set the envelope's rawResponse is the *)
(* upstream payload untouched: each of its results carries exactly the     *)
(* fields and values the transport returned, filtered fields included.     *)

C19_RawResponseUntouched ==
    (Processed /\ RawResponseInput) => Envelope.rawResponse = Payload

----------------------------------------------------------------------------
(* C20: a successful envelope carries a rawResponse payload iff the        *)
(* request's rawResponse flag is set; otherwise it has no rawResponse      *)
(* value.                                                                  *)

C20_RawResponseIffFlag ==
    Processed => (Envelope.rawResponse # Undefined <=> RawResponseInput)

C20_Witness ==
    /\ Processed /\ RawResponseInput
    /\ Len(UpstreamResults) = 2
    /\ Envelope.rawResponse.t = "object"

----------------------------------------------------------------------------
(* C21: the envelope's results are a prefix of the upstream results in     *)
(* upstream order, each the processed form of the upstream result at the   *)
(* same index: nothing is reordered, duplicated or skipped, results are    *)
(* dropped from the tail only.                                             *)

C21_ResultsPrefix ==
    Processed =>
        /\ Len(Envelope.results) <= Len(UpstreamResults)
        /\ \A n \in 1..Len(Envelope.results) :
               /\ Envelope.results[n] = ProcessResult(UpstreamResults[n], cur.filters)
               /\ ~Filtered("title") =>
                      Get(Envelope.results[n].v, "title") =
                          Get(UpstreamResults[n].v, "title")

C21_Witness ==
    /\ Processed /\ LimitInput = 2 /\ ~SingleResponseInput
    /\ "filter" \notin DOMAIN AdditionalFieldsInput
    /\ Len(UpstreamResults) = 3
    /\ UpstreamResults[1].v["title"] = Str(<<"A">>)
    /\ UpstreamResults[2].v["title"] = Str(<<"B">>)
    /\ UpstreamResults[3].v["title"] = Str(<<"B">>)
    /\ Len(Envelope.results) = 2
    /\ Envelope.results[1].v["title"] = Str(<<"A">>)
    /\ Envelope.results[2].v["title"] = Str(<<"B">>)

----------------------------------------------------------------------------
(* C22: when the upstream results field is no array (absent, null, a       *)
(* string, an object) the item yields a successful envelope with results   *)
(* = [], total = 0, totalReturned = 0, filtered = false and no answer,     *)
(* also when singleResponse is true.                                       *)

ResultsNotArray ==
    /\ Len(replies) = 1 /\ replies[1].kind = "resolved"
    /\ Payload.t = "object"
    /\ "results" \in DOMAIN Payload.v => Payload.v["results"].t # "array"

C22_NoResultsArray ==
    ResultsNotArray =>
        /\ Len(returnData) = 1
        /\ returnData[1].success = TRUE
        /\ returnData[1].results = <<>>
        /\ returnData[1].metadata.total = 0
        /\ returnData[1].metadata.totalReturned = 0
        /\ returnData[1].metadata.filtered = FALSE
        /\ returnData[1].answer = Undefined

C22_Witness ==
    /\ ResultsNotArray /\ SingleResponseInput
    /\ Payload = Obj([results |-> Str(<<"none">>)])
    /\ returnData[1].success = TRUE
    /\ returnData[1].results = <<>>

----------------------------------------------------------------------------
(* C23: answer is set only when singleResponse is true and upstream        *)
(* returned at least one result; in every other successful envelope        *)
(* (limit applied, results passed through, or no result) no answer is set. *)

C23_AnswerOnlySingle ==
    Processed =>
        (~(SingleResponseInput /\ Len(UpstreamResults) >= 1) =>
             Envelope.answer = Undefined)

C23_Witness ==
    /\ Processed /\ ~SingleResponseInput /\ LimitInput = 1
    /\ Len(UpstreamResults) = 2
    /\ Len(Envelope.results) = 1
    /\ Envelope.answer = Undefined

----------------------------------------------------------------------------
(* C26: in single-response mode the answer is taken from the first result  *)
(* after filtering: when content is named in the filter list or absent     *)
(* upstream the answer is the preserved snippet (upstream snippet, falling *)
(* back to upstream content), otherwise it is the first result's content,  *)
(* even when an upstream snippet exists.                                   *)

SingleAnswered == Processed /\ SingleResponseInput /\ Len(UpstreamResults) >= 1

FirstResult == UpstreamResults[1]

C26_AnswerAfterFiltering ==
    SingleAnswered =>
        IF Filtered("content") \/ "content" \notin DOMAIN FirstResult.v
        THEN Envelope.answer = UpstreamSnippet(FirstResult)
        ELSE Envelope.answer = FirstResult.v["content"]

(* C26, as the code has it: a content that is the empty string falls back  *)
(* to the preserved snippet as well.                                       *)
C26_AnswerAfterFilteringOrEmpty ==
    SingleAnswered =>
        IF \/ Filtered("content")
           \/ "content" \notin DOMAIN FirstResult.v
           \/ FirstResult.v["content"] = Str(<<>>)
        THEN Envelope.answer = UpstreamSnippet(FirstResult)
        ELSE Envelope.answer = FirstResult.v["content"]

C26_Witness ==
    /\ SingleAnswered
    /\ AdditionalFieldsInput =
           [filter |-> Str(<<" ", "content", " ", ",", "snippet", " ">>),
            singleResponse |-> Bool(TRUE)]
    /\ FirstResult = Obj([content |-> Str(<<"C">>), snippet |-> Str(<<"S">>)])
    /\ Envelope.answer = Str(<<"S">>)

----------------------------------------------------------------------------
(* C27: a filter that is the empty string is treated as not provided, the  *)
(* default filter (thumbnail, parsed_url, positions) is applied; empty or  *)
(* blank tokens inside a filter string are ignored and remove nothing.     *)

EmptyFilterInput ==
    /\ "filter" \in DOMAIN AdditionalFieldsInput
    /\ AdditionalFieldsInput["filter"] = Str(<<>>)

C27_EmptyFilter ==
    Processed =>
        \A n \in 1..Len(Envelope.results) :
            /\ EmptyFilterInput =>
                   DOMAIN Envelope.results[n].v =
                       ((DOMAIN UpstreamResults[n].v) \ DefaultFields) \cup {"snippet"}
            /\ PresentNonEmpty("filter") =>
                   \A k \in (DOMAIN UpstreamResults[n].v) \ {"snippet"} :
                       k \notin DOMAIN Envelope.results[n].v =>
                           NamedIn(AdditionalFieldsInput["filter"].v, k)

C27_Witness ==
    /\ Processed /\ EmptyFilterInput
    /\ UpstreamResults = <<Obj([title |-> Str(<<"T">>), thumbnail |-> Str(<<"X">>)])>>
    /\ DOMAIN Envelope.results[1].v = {"title", "snippet"}

\* a field named "" outlives a filter with empty and blank tokens
C27_UnnamedFieldKept ==
    /\ Processed
    /\ AdditionalFieldsInput =
           [filter |-> Str(<<"title", ",", ",", " ", ",", "thumbnail", ",">>)]
    /\ UpstreamResults = <<UnnamedFieldResult>>
    /\ DOMAIN Envelope.results[1].v = {"", "snippet"}

----------------------------------------------------------------------------
(* C30: safesearch "0" (Off) counts as present: with safesearch = "0" in   *)
(* the additional fields the parameters sent include safesearch = "0",     *)
(* whereas time_range = "" (Any Time) sends no time_range key.             *)

SafesearchOff ==
    /\ "safesearch" \in DOMAIN AdditionalFieldsInput
    /\ AdditionalFieldsInput["safesearch"] = Str(<<"0">>)

TimeRangeAny ==
    /\ "time_range" \in DOMAIN AdditionalFieldsInput
    /\ AdditionalFieldsInput["time_range"] = Str(<<>>)

C30_SafesearchOffSent ==
    Sent =>
        /\ SafesearchOff =>
               /\ "safesearch" \in DOMAIN SentParameters
               /\ SentParameters["safesearch"] = Str(<<"0">>)
        /\ TimeRangeAny => "time_range" \notin DOMAIN SentParameters

C30_Witness ==
    /\ Sent /\ SafesearchOff /\ TimeRangeAny
    /\ "language" \notin DOMAIN AdditionalFieldsInput
    /\ SentParameters["safesearch"] = Str(<<"0">>)
    /\ "time_range" \notin DOMAIN SentParameters

----------------------------------------------------------------------------
(* C24: the output list is append-only during a call: a step leaves every  *)
(* envelope already appended unchanged and in place (the list before is a  *)
(* prefix of the list after) and appends at most one; the step that        *)
(* settles an item, successfully or as a failure with continuation         *)
(* enabled, appends exactly one envelope.                                  *)

\* the step settles the transport call of the item in progress
ItemSettles == pc = "awaitHttp" /\ Len(replies') = Len(replies) + 1

\* the item settled by the step fails: its call is rejected or its payload unreadable
SettledItemFails == TransportFailed(i)' \/ UnreadablePayload(i)'

C24_Step ==
    /\ Len(returnData') >= Len(returnData)
    /\ Len(returnData') <= Len(returnData) + 1
    /\ SubSeq(returnData', 1, Len(returnData)) = returnData
    /\ (ItemSettles /\ (continueFlag \/ ~SettledItemFails)) =>
           Len(returnData') = Len(returnData) + 1
    /\ ~ItemSettles => returnData' = returnData

----------------------------------------------------------------------------
(* C25: with continuation enabled, a failure of item k outside the         *)
(* transport and post-processing step (a parameter lookup that throws, a   *)
(* malformed categories value) produces no failure envelope for item k:    *)
(* execute returns, without raising, the envelopes of the items before k   *)
(* only, no item after k is processed or sent to the transport, and the    *)
(* output has fewer envelopes than there are input items.                  *)

\* item k fails before its transport call: the categories lookup throws, or the
\* categories value is truthy and neither a string nor an array
FailsBeforeTransport(k) ==
    \/ nodeParams[k].categories.t = "throws"
    \/ /\ nodeParams[k].categories.t \notin {"string", "array", "null", "undefined"}
       /\ nodeParams[k].categories \notin {Num(0), Bool(FALSE)}

FirstFailingBeforeTransport ==
    CHOOSE k \in 1..Len(items) :
        FailsBeforeTransport(k) /\ \A j \in 1..(k - 1) : ~FailsBeforeTransport(j)

C25_BodyFailureTruncates ==
    (Done /\ continueFlag /\ CredentialsOk
          /\ \E k \in 1..Len(items) : FailsBeforeTransport(k)) =>
        /\ outcome = Returned(returnData)
        /\ Len(returnData) = FirstFailingBeforeTransport - 1
        /\ Len(returnData) < Len(items)
        /\ Len(calls) = FirstFailingBeforeTransport - 1
        /\ \A n \in 1..Len(calls) : calls[n].item < FirstFailingBeforeTransport
        /\ \A n \in 1..Len(replies) : replies[n].item < FirstFailingBeforeTransport

C25_Witness ==
    /\ Done /\ continueFlag /\ CredentialsOk /\ Len(items) = 3
    /\ nodeParams[1].categories.t = "array"
    /\ nodeParams[2].categories.t = "throws"
    /\ nodeParams[3].categories.t = "array"
    /\ outcome.kind = "returned" /\ Len(outcome.output) = 1
    /\ Len(calls) = 1

\* the same for a malformed categories value
C25_MalformedWitness ==
    /\ Done /\ continueFlag /\ CredentialsOk /\ Len(items) = 3
    /\ nodeParams[1].categories.t = "array"
    /\ nodeParams[2].categories = Num(5)
    /\ outcome.kind = "returned" /\ Len(outcome.output) = 1

----------------------------------------------------------------------------
(* C28: for every item that reaches the transport, the query of its        *)
(* envelope (success or failure) is the q parameter sent for that item,    *)
(* and in a successful envelope metadata.queryParameters is the full       *)
(* parameter set that was sent.                                            *)

C28_QueryEchoed ==
    \A k \in 1..Len(returnData) :
        /\ k <= Len(calls) /\ calls[k].item = k
        /\ returnData[k].query = calls[k].qs["q"]
        /\ returnData[k].success = TRUE =>
               returnData[k].metadata.queryParameters = calls[k].qs

C28_Witness ==
    /\ Len(returnData) = 2
    /\ returnData[1].success = FALSE
    /\ returnData[1].query = Str(<<"cats">>) /\ calls[1].qs["q"] = Str(<<"cats">>)
    /\ returnData[2].success = TRUE
    /\ returnData[2].query = ConfiguredQuery
    /\ returnData[2].metadata.queryParameters = calls[2].qs

----------------------------------------------------------------------------
(* C29: if every transport call eventually completes (returns or fails),   *)
(* a call of execute eventually finishes for every finite batch, either    *)
(* returning an envelope list or raising, after at most one transport call *)
(* per input item.                                                         *)

Called == pc # "idle"

AtMostOneCallPerItem ==
    /\ Len(calls) <= Len(items)
    /\ \A m, n \in 1..Len(calls) : calls[m].item = calls[n].item => m = n
    /\ \A n \in 1..Len(calls) : calls[n].item \in 1..Len(items)

Finished ==
    /\ pc = "done"
    /\ outcome.kind \in {"returned", "raised"}
    /\ pending = {}
    /\ AtMostOneCallPerItem

====
